---- MODULE Spec2Model ----
(***************************************************************************)
(* Model of image-processor.lib: the variant-generation pipeline           *)
(* (ImagePipelineService.processImage), the file naming utilities and the  *)
(* input validator.                                                        *)
(*                                                                         *)
(* Strings are sequences of one-character strings, so that lastIndexOf,    *)
(* substring, toLowerCase and template-literal formatting are computed and *)
(* not assumed.  An optional value (a parameter that may be omitted, a     *)
(* field that may be undefined, a null buffer) is a sequence of length 0   *)
(* (absent) or 1 (present).                                                *)
(***************************************************************************)
EXTENDS Integers, Sequences, FiniteSets, TLC

VARIABLES
    config,          \* the engine's active ImageProcessingConfig (_sizes, _formats, _dpr)
    env,             \* behaviour of the injected Transform and Storage capabilities
    storage,         \* contents of the Storage capability: set of [path, data]
    uuidSeq,         \* number of uuid tokens drawn so far
    pc,              \* position of the processImage call
    args,            \* arguments of the processImage call
    isValid,         \* local: isValidImage (optional: absent until validateImage settles)
    originalPath,    \* local: originalPath (optional)
    generatedFiles,  \* local: generatedFiles, format type -> list of paths
    loop,            \* local: the three for-of iterators and their arrays
    pending,         \* local: the Transform output awaiting upload (optional)
    outcome,         \* how the call settled: result or error
    validateLog,     \* calls of imageProcessor.validateImage in this call
    transformLog,    \* calls of imageProcessor.processImage in this call
    uploadLog,       \* calls of storageDriver.upload in this call
    faults,          \* what the capabilities did: [transform, upload] sets of call numbers
    consoleLog,      \* console.error entries of the per-tuple catch block
    storage0,        \* storage contents when the call started
    configAtCall,    \* the engine's configuration when the call started (optional)
    nameArgs,        \* arguments of a direct FileNamingUtils.generateFileName call
    nameResult,      \* its return value (optional)
    lastOp,          \* the last getImage / deleteImage call and how it settled
    deletes,         \* the deleteImage calls that succeeded: set of [path, settled]
    heap,            \* the arrays of a program that uses an ImageProcessingConfig
    cfgRefs,         \* that ImageProcessingConfig: the arrays its fields refer to
    held,            \* the arrays its caller holds a reference to
    expect,          \* per axis: the array last given to or got from it, and its value then
    lastCfgOp,       \* the last method called on it, its argument and its effect
    cfgOps,          \* number of steps of that program
    engine,          \* the configuration an engine of that program holds: its fields
    lastUpdate,      \* the last updateConfig call: its argument, and when it was made
    idiom,           \* the caller that overrides the configuration for one call
    validation       \* a direct call of an ImageValidator method: arguments, what it threw

vars == <<config, env, storage, uuidSeq, pc, args, isValid, originalPath, generatedFiles,
          loop, pending, outcome, validateLog, transformLog, uploadLog, faults,
          consoleLog, storage0, configAtCall, nameArgs, nameResult, lastOp, deletes,
          heap, cfgRefs, held, expect, lastCfgOp, cfgOps, engine, lastUpdate,
          idiom, validation>>

pipelineVars == <<config, env, storage, uuidSeq, pc, args, isValid, originalPath,
                  generatedFiles, loop, pending, outcome, validateLog,
                  transformLog, uploadLog, faults, consoleLog, storage0, configAtCall>>

namingVars == <<nameArgs, nameResult>>

storeVars == <<lastOp, deletes>>

configVars == <<heap, cfgRefs, held, expect, lastCfgOp, cfgOps, engine>>

updateVars == <<lastUpdate, idiom>>

validatorVars == <<validation>>

\* what a step of processImage leaves alone
besideVars == <<namingVars, storeVars, configVars, updateVars, validatorVars>>

-----------------------------------------------------------------------------
(* Optional values *)

None == <<>>

Some(v) == <<v>>

IsSome(o) == Len(o) = 1

Get(o) == o[1]

-----------------------------------------------------------------------------
(* Characters and strings *)

UpperChars == <<"A", "B", "C", "D", "E", "F", "G", "H", "I", "J", "K", "L", "M",
                "N", "O", "P", "Q", "R", "S", "T", "U", "V", "W", "X", "Y", "Z">>

LowerChars == <<"a", "b", "c", "d", "e", "f", "g", "h", "i", "j", "k", "l", "m",
                "n", "o", "p", "q", "r", "s", "t", "u", "v", "w", "x", "y", "z">>

DigitChars == <<"0", "1", "2", "3", "4", "5", "6", "7", "8", "9">>

\* String.prototype.toLowerCase, one character
ToLowerChar(c) ==
    IF \E i \in 1..Len(UpperChars) : UpperChars[i] = c
    THEN LowerChars[CHOOSE i \in 1..Len(UpperChars) : UpperChars[i] = c]
    ELSE c

\* String.prototype.toLowerCase
toLowerCase(s) == [i \in 1..Len(s) |-> ToLowerChar(s[i])]

\* String.prototype.lastIndexOf('.') as a 1-based position, 0 for JavaScript's -1
RECURSIVE LastIndexFrom(_, _, _)
LastIndexFrom(s, c, i) ==
    IF i = 0 THEN 0
    ELSE IF s[i] = c THEN i
    ELSE LastIndexFrom(s, c, i - 1)

lastIndexOf(s, c) == LastIndexFrom(s, c, Len(s))

\* String.prototype.indexOf('.') as a 1-based position, 0 for JavaScript's -1
indexOf(s, c) ==
    IF \E i \in 1..Len(s) : s[i] = c
    THEN CHOOSE i \in 1..Len(s) : s[i] = c /\ \A j \in 1..(i - 1) : s[j] # c
    ELSE 0

\* Number -> string as a template literal renders a non-negative integer
RECURSIVE NumberToString(_)
NumberToString(n) ==
    IF n < 10 THEN <<DigitChars[n + 1]>>
    ELSE NumberToString(n \div 10) \o <<DigitChars[(n % 10) + 1]>>

-----------------------------------------------------------------------------
(* FileNamingUtils *)

DefaultDpr == 1

\* The mutant: the base name is cut at the first dot.
getBaseNameFirstDot(filename) ==
    LET firstDotIndex == indexOf(filename, ".")
    IN  IF firstDotIndex = 0 THEN filename
        ELSE SubSeq(filename, 1, firstDotIndex - 1)

getBaseName(filename) ==
    LET lastDotIndex == lastIndexOf(filename, ".")
    IN  IF lastDotIndex = 0 THEN filename
        ELSE SubSeq(filename, 1, lastDotIndex - 1)

getFileExtension(filename) ==
    LET lastDotIndex == lastIndexOf(filename, ".")
    IN  IF lastDotIndex = 0 THEN <<>>
        ELSE SubSeq(filename, lastDotIndex, Len(filename))

\* dprOpt is the optional fourth argument: the default applies when it is absent
generateFileName(originalName, width, format, dprOpt) ==
    LET dpr == IF IsSome(dprOpt) THEN Get(dprOpt) ELSE DefaultDpr
        baseName == getBaseName(originalName)
    IN  baseName \o <<"_">> \o NumberToString(width) \o <<"w", "@">>
            \o NumberToString(dpr) \o <<"x", ".">> \o format

BasePathDefault == <<"/", "u", "p", "l", "o", "a", "d", "s", "/",
                     "o", "r", "i", "g", "i", "n", "a", "l", "s">>

\* uuidv4(): the n-th token drawn differs from every other token drawn
UuidToken(n) == <<"#", DigitChars[n + 1]>>

generateOriginalFileName(originalName, n) ==
    UuidToken(n) \o getFileExtension(originalName)

generateOriginalPath(originalName, n) ==
    BasePathDefault \o <<"/">> \o generateOriginalFileName(originalName, n)

-----------------------------------------------------------------------------
(* Errors: the class of the thrown object, the class of its originalError  *)
(* and its message; the fixed parts of a message are single tokens         *)

NewError(kind, message) == [kind |-> kind, cause |-> "none", message |-> message]

\* an error constructed with an originalError, its message ending with the
\* message of that error
WrapError(kind, message, e) ==
    [kind |-> kind, cause |-> e.kind, message |-> message \o e.message]

UnsupportedImageFormatError(format) ==
    NewError("UnsupportedImageFormatError", <<"Unsupported image format: ">> \o format)

ImageValidationError(message) == NewError("ImageValidationError", message)

ImageProcessingFailedError(message) == NewError("ImageProcessingFailedError", message)

\* what a capability throws: a plain Error
PlainError(message) == NewError("Error", message)

-----------------------------------------------------------------------------
(* ImageValidator: each check returns the error it throws, None when it returns *)

SUPPORTED_MIME_TYPES ==
    { <<"i", "m", "a", "g", "e", "/", "j", "p", "e", "g">>,
      <<"i", "m", "a", "g", "e", "/", "j", "p", "g">>,
      <<"i", "m", "a", "g", "e", "/", "p", "n", "g">>,
      <<"i", "m", "a", "g", "e", "/", "w", "e", "b", "p">>,
      <<"i", "m", "a", "g", "e", "/", "a", "v", "i", "f">>,
      <<"i", "m", "a", "g", "e", "/", "g", "i", "f">>,
      <<"i", "m", "a", "g", "e", "/", "b", "m", "p">>,
      <<"i", "m", "a", "g", "e", "/", "t", "i", "f", "f">>,
      <<"i", "m", "a", "g", "e", "/", "s", "v", "g", "+", "x", "m", "l">> }

SUPPORTED_EXTENSIONS ==
    { <<".", "j", "p", "g">>, <<".", "j", "p", "e", "g">>, <<".", "p", "n", "g">>,
      <<".", "w", "e", "b", "p">>, <<".", "a", "v", "i", "f">>, <<".", "g", "i", "f">>,
      <<".", "b", "m", "p">>, <<".", "t", "i", "f", "f">>, <<".", "s", "v", "g">> }

\* The mutant: the MIME type check never fails.
validateMimeTypeSkipped(mimeType) == None

validateMimeType(mimeType) ==
    IF toLowerCase(mimeType) \notin SUPPORTED_MIME_TYPES
    THEN Some(UnsupportedImageFormatError(mimeType))
    ELSE None

\* The mutant: the extension is compared as it is written.
validateExtensionCaseSensitive(filename) ==
    LET extension == getFileExtension(filename)
    IN  IF extension \notin SUPPORTED_EXTENSIONS
        THEN Some(UnsupportedImageFormatError(extension))
        ELSE None

validateExtension(filename) ==
    LET extension == getFileExtension(filename)
    IN  IF toLowerCase(extension) \notin SUPPORTED_EXTENSIONS
        THEN Some(UnsupportedImageFormatError(extension))
        ELSE None

validateFileSize(buffer, maxSizeInBytes) ==
    IF Len(buffer) > maxSizeInBytes
    THEN Some(ImageValidationError(
             <<"File size exceeds maximum allowed size of ">>
                 \o NumberToString(maxSizeInBytes) \o <<" bytes">>))
    ELSE None

\* The mutant: the extension check is left out.
validateFileNoExtension(buffer, filename, mimeType, maxSizeInBytes) ==
    IF ~IsSome(buffer) \/ Len(Get(buffer)) = 0
    THEN Some(ImageValidationError(<<"File buffer is empty">>))
    ELSE IF IsSome(mimeType) /\ Get(mimeType) # <<>>
            /\ IsSome(validateMimeType(Get(mimeType)))
    THEN validateMimeType(Get(mimeType))
    ELSE IF IsSome(maxSizeInBytes) /\ Get(maxSizeInBytes) # 0
            /\ IsSome(validateFileSize(Get(buffer), Get(maxSizeInBytes)))
    THEN validateFileSize(Get(buffer), Get(maxSizeInBytes))
    ELSE None

\* buffer, mimeType and maxSizeInBytes are optional; `if (mimeType)` and
\* `if (maxSizeInBytes)` test truthiness, so "" and 0 count as not supplied
validateFile(buffer, filename, mimeType, maxSizeInBytes) ==
    IF ~IsSome(buffer) \/ Len(Get(buffer)) = 0
    THEN Some(ImageValidationError(<<"File buffer is empty">>))
    ELSE IF IsSome(validateExtension(filename))
    THEN validateExtension(filename)
    ELSE IF IsSome(mimeType) /\ Get(mimeType) # <<>>
            /\ IsSome(validateMimeType(Get(mimeType)))
    THEN validateMimeType(Get(mimeType))
    ELSE IF IsSome(maxSizeInBytes) /\ Get(maxSizeInBytes) # 0
            /\ IsSome(validateFileSize(Get(buffer), Get(maxSizeInBytes)))
    THEN validateFileSize(Get(buffer), Get(maxSizeInBytes))
    ELSE None

-----------------------------------------------------------------------------
(* Data: sizes, formats, DPR ratios, configurations *)

Webp == <<"w", "e", "b", "p">>

Avif == <<"a", "v", "i", "f">>

S320 == [width |-> 320, height |-> None]

S640 == [width |-> 640, height |-> None]

S1024 == [width |-> 1024, height |-> None]

S320H240 == [width |-> 320, height |-> Some(240)]

Webp80 == [type |-> Webp, quality |-> Some(80)]

Webp50 == [type |-> Webp, quality |-> Some(50)]

Avif80 == [type |-> Avif, quality |-> Some(80)]

AvifNoQuality == [type |-> Avif, quality |-> None]

\* new ImageProcessingConfig(): the field initialisers
DefaultConfig ==
    [sizes |-> <<S320, S640, S1024>>,
     formats |-> <<Webp80, Avif80>>,
     dpr |-> [ratios |-> <<1, 2, 3>>]]

\* the axes a caller sets with setSizes / setFormats / setDPR
SizeLists == {<<>>, <<S320>>, <<S320, S640>>, <<S320H240, S320>>}

FormatLists == {<<>>, <<Webp80>>, <<Webp80, AvifNoQuality>>, <<Webp80, Webp50>>}

RatioLists == {<<>>, <<2>>, <<1, 2>>, <<1, 2, 3>>}

Configs ==
    {DefaultConfig} \cup
    { [sizes |-> s, formats |-> f, dpr |-> [ratios |-> r]] :
        s \in SizeLists, f \in FormatLists, r \in RatioLists }

\* the arguments a caller passes to processImage
Buffers == {None, Some(<<>>), Some(<<7, 8>>)}

FileNames == { <<"p", "i", "c", ".", "j", "p", "g">>,
               <<"a", ".", "b", ".", "P", "N", "G">>,
               <<"n", "o", "e", "x", "t">>,
               <<"x", ".", "p", "d", "f">> }

MimeTypes == { None,
               Some(<<"I", "M", "A", "G", "E", "/", "P", "N", "G">>),
               Some(<<"t", "e", "x", "t", "/", "p", "l", "a", "i", "n">>) }

MaxSizeArgs == {None, Some(1), Some(2)}

-----------------------------------------------------------------------------
(* The capabilities *)

\* number of calls a flaky capability may fail in one behaviour
MaxFailures == 1

\* Buffer contents: the input bytes, and for an encoded variant what it was
\* encoded to
Raw(bytes) == [bytes |-> bytes, enc |-> None]

QualityDefault == 80

\* ImageProcessorService.processImage, when sharp succeeds: the encoded buffer
\* is determined by the input bytes, the resize target and the format with
\* `format.quality || 80`
processedImage(buffer, size, format) ==
    [bytes |-> buffer,
     enc |-> Some([width |-> size.width,
                   height |-> size.height,
                   type |-> format.type,
                   quality |-> IF IsSome(format.quality) /\ Get(format.quality) # 0
                               THEN Get(format.quality)
                               ELSE QualityDefault])]

Envs == [transform : {"flaky", "failing"},
         storage : {"flaky", "failing"},
         driver : {"local", "remote"}]

\* The mutant: an upload does not replace what the path holds.
PutKeepFirst(store, path, data) ==
    IF \E o \in store : o.path = path THEN store
    ELSE store \cup {[path |-> path, data |-> data]}

\* StorageDriver.upload: the stored object replaces what the path held
Put(store, path, data) ==
    {o \in store : o.path # path} \cup {[path |-> path, data |-> data]}

\* what StorageDriver.upload returns: the path (local driver, test mock) or
\* the location the backend reports (S3, Cloudinary)
Location(driver, path) ==
    IF driver = "local" THEN path ELSE <<"https://bucket/">> \o path

\* Map.has(path)
Has(store, path) == \E o \in store : o.path = path

\* Map.get(path), for a path the map has
Lookup(store, path) == (CHOOSE o \in store : o.path = path).data

\* Map.delete(path)
Remove(store, path) == {o \in store : o.path # path}

\* contents the storage may hold before the call: nothing, or a variant
\* left by an earlier upload of a file with the same name
StaleVariant ==
    [path |-> generateFileName(<<"p", "i", "c", ".", "j", "p", "g">>, 320, Webp, Some(1)),
     data |-> Raw(<<9>>)]

InitialStorages == {{}, {StaleVariant}}

\* what a capability that fails rejects with
StorageFault == PlainError(<<"Storage failed">>)

FaultsSpent == Cardinality(faults.transform) + Cardinality(faults.upload)

MayFail(mode) == mode = "failing" \/ FaultsSpent < MaxFailures

MaySucceed(mode) == mode # "failing"

-----------------------------------------------------------------------------
(* ImagePipelineService.processImage: the pieces of its body *)

EmptyMap == [t \in {} |-> <<>>]

FormatTypes(formats) == {formats[i].type : i \in 1..Len(formats)}

\* The mutant: no list is created up front.
InitGeneratedNone(formats) == EmptyMap

\* "Initialize format arrays"
InitGenerated(formats) == [t \in FormatTypes(formats) |-> <<>>]

\* The mutant: the transform target is the nominal size.
actualSizeNominal(size, dprRatio) == [width |-> size.width, height |-> size.height]

\* "Calculate actual size for DPR": `size.height ? size.height * dprRatio : undefined`
actualSize(size, dprRatio) ==
    [width |-> size.width * dprRatio,
     height |-> IF IsSome(size.height) /\ Get(size.height) # 0
                THEN Some(Get(size.height) * dprRatio)
                ELSE None]

\* The mutant: the name embeds the effective width.
variantFileNameEffective(originalFilename, size, format, dprRatio) ==
    generateFileName(originalFilename, size.width * dprRatio, format.type, Some(dprRatio))

\* the generateFileName call of the loop body
variantFileName(originalFilename, size, format, dprRatio) ==
    generateFileName(originalFilename, size.width, format.type, Some(dprRatio))

\* The mutant: every error is rethrown as it is.
PipelineCatchRethrow(error) == error

\* the outer catch block: StorageError and ImageProcessingFailedError are
\* rethrown, anything else is wrapped
PipelineCatch(error) ==
    IF error.kind = "StorageError" \/ error.kind = "ImageProcessingFailedError"
    THEN error
    ELSE WrapError("ImageProcessingFailedError", <<"Pipeline processing failed: ">>, error)

\* The mutant: the driver's error is rethrown as it is.
uploadFileCatchRethrow(filename, error) == error

\* uploadFile's catch block
uploadFileCatch(filename, error) ==
    WrapError("StorageError", <<"Failed to upload file ">> \o filename \o <<": ">>, error)

\* The mutant: the answer of validateImage is ignored.
CheckValidImageIgnored(isValidImage) == None

\* `if (!isValidImage) throw new ImageProcessingFailedError('Invalid image file')`
CheckValidImage(isValidImage) ==
    IF ~isValidImage
    THEN Some(ImageProcessingFailedError(<<"Invalid image file">>))
    ELSE None

LoopDone == [sizes |-> <<>>, formats |-> <<>>, ratios |-> <<>>,
             si |-> 0, fi |-> 0, di |-> 0, done |-> TRUE]

\* The three nested for-of loops.  Each for-of evaluates its getter once, when
\* the loop is entered: this.config.sizes once, this.config.formats once per
\* size, this.config.dpr.ratios once per (size, format).
RECURSIVE NextFormat(_, _, _, _, _)
RECURSIVE NextSize(_, _, _)
NextFormat(cfg, sizes, si, formats, fi) ==
    IF fi > Len(formats)
    THEN NextSize(cfg, sizes, si + 1)
    ELSE LET ratios == cfg.dpr.ratios
         IN  IF Len(ratios) = 0
             THEN NextFormat(cfg, sizes, si, formats, fi + 1)
             ELSE [sizes |-> sizes, formats |-> formats, ratios |-> ratios,
                   si |-> si, fi |-> fi, di |-> 1, done |-> FALSE]

NextSize(cfg, sizes, si) ==
    IF si > Len(sizes)
    THEN LoopDone
    ELSE NextFormat(cfg, sizes, si, cfg.formats, 1)

\* The mutant: the outer loop starts at the second size.
FirstTupleSecondSize(cfg) == NextSize(cfg, cfg.sizes, 2)

\* entering the outer loop
FirstTuple(cfg) == NextSize(cfg, cfg.sizes, 1)

\* The mutant: the loops are nested the other way round (sizes innermost).
NextTupleSizeMinor(cfg, l) ==
    IF l.si < Len(l.sizes)
    THEN [l EXCEPT !.si = @ + 1]
    ELSE IF l.di < Len(l.ratios)
    THEN [l EXCEPT !.si = 1, !.di = @ + 1]
    ELSE IF l.fi < Len(l.formats)
    THEN [l EXCEPT !.si = 1, !.di = 1, !.fi = @ + 1]
    ELSE LoopDone

\* the step from one loop body to the next
NextTuple(cfg, l) ==
    IF l.di < Len(l.ratios)
    THEN [l EXCEPT !.di = @ + 1]
    ELSE NextFormat(cfg, l.sizes, l.si, l.formats, l.fi + 1)

\* The mutant: a failed tuple ends the loops.
TupleCatchAbort(cfg, l) == LoopDone

\* the inner catch block: log, then go on with the next tuple
TupleCatch(cfg, l) == NextTuple(cfg, l)

CurSize(l) == l.sizes[l.si]

CurFormat(l) == l.formats[l.fi]

CurRatio(l) == l.ratios[l.di]

-----------------------------------------------------------------------------
(* ImagePipelineService.processImage: the call, one action per await *)

NoArgs == [buffer |-> None, originalFilename |-> <<>>, mimeType |-> None,
           maxSizeInBytes |-> None]

NoNameArgs == [originalName |-> <<>>, width |-> 0, format |-> <<>>, dpr |-> None]

NoFaults == [transform |-> {}, upload |-> {}]

NoRefs == [sizes |-> 0, formats |-> 0, ratios |-> 0]

NoExpect == [sizes |-> None, formats |-> None, ratios |-> None]

NoCfgOp == [op |-> "none", axis |-> "none", arg |-> None, before |-> <<>>, after |-> <<>>]

\* the program has no engine
NoEngine == [refs |-> NoRefs, sharesDpr |-> FALSE, updated |-> FALSE]

NoUpdate == [n |-> 0, arg |-> None, at |-> "none"]

NoIdiom == [state |-> "none", saved |-> "none", custom |-> None, before |-> None,
            alone |-> TRUE]

NoOp == [op |-> "none", path |-> <<>>, call |-> None, settled |-> 0, fault |-> FALSE,
         before |-> {}, after |-> {}, value |-> None, error |-> None]

InitPipeline ==
    /\ config \in Configs
    /\ env \in Envs
    /\ storage \in InitialStorages
    /\ storage0 = storage
    /\ uuidSeq = 0
    /\ pc = "idle"
    /\ args = NoArgs
    /\ isValid = None
    /\ originalPath = None
    /\ generatedFiles = EmptyMap
    /\ loop = LoopDone
    /\ pending = None
    /\ outcome = None
    /\ validateLog = <<>>
    /\ transformLog = <<>>
    /\ uploadLog = <<>>
    /\ faults = NoFaults
    /\ consoleLog = <<>>
    /\ configAtCall = None

\* no direct call of FileNamingUtils has been made
NamingIdle ==
    /\ nameArgs = NoNameArgs
    /\ nameResult = None

\* no getImage / deleteImage call has been made
StoreIdle ==
    /\ lastOp = NoOp
    /\ deletes = {}

\* no ImageProcessingConfig is being set up by a caller
ConfigIdle ==
    /\ heap = <<>>
    /\ cfgRefs = NoRefs
    /\ held = {}
    /\ expect = NoExpect
    /\ lastCfgOp = NoCfgOp
    /\ cfgOps = 0
    /\ engine = NoEngine

\* updateConfig has not been called
UpdateIdle ==
    /\ lastUpdate = NoUpdate
    /\ idiom = NoIdiom

\* no ImageValidator method has been called directly
NoValidation ==
    [op |-> "none", buffer |-> None, filename |-> <<>>, mimeType |-> None,
     maxSizeInBytes |-> None, returned |-> FALSE, thrown |-> None]

ValidatorIdle == validation = NoValidation

Init ==
    /\ InitPipeline
    /\ NamingIdle
    /\ StoreIdle
    /\ ConfigIdle
    /\ UpdateIdle
    /\ ValidatorIdle

\* the promise rejects with what the outer catch block throws
Reject(error) ==
    /\ pc' = "rejected"
    /\ outcome' = Some([tag |-> "error", error |-> PipelineCatch(error)])

\* after a loop body: the next body begins with its Transform call, or the
\* loops are over and the result is returned
Proceed(l, gen) ==
    /\ loop' = l
    /\ generatedFiles' = gen
    /\ IF l.done
       THEN /\ pc' = "resolved"
            /\ outcome' = Some([tag |-> "result",
                                original |-> Get(originalPath),
                                generated |-> gen])
            /\ UNCHANGED transformLog
       ELSE /\ pc' = "transform"
            /\ transformLog' = Append(transformLog,
                   [buffer |-> Get(args.buffer),
                    size |-> actualSize(CurSize(l), CurRatio(l)),
                    format |-> CurFormat(l)])
            /\ UNCHANGED outcome

\* processImage is called: validateFile runs synchronously, then
\* imageProcessor.validateImage is awaited
CallBody(active) ==
    /\ pc = "idle"
    /\ configAtCall' = Some(active)
    /\ \E b \in Buffers, f \in FileNames, m \in MimeTypes, x \in MaxSizeArgs :
         LET thrown == validateFile(b, f, m, x)
         IN  /\ args' = [buffer |-> b, originalFilename |-> f, mimeType |-> m,
                         maxSizeInBytes |-> x]
             /\ IF IsSome(thrown)
                THEN /\ Reject(Get(thrown))
                     /\ UNCHANGED validateLog
                ELSE /\ pc' = "validateImage"
                     /\ validateLog' = Append(validateLog, Get(b))
                     /\ UNCHANGED outcome
    /\ UNCHANGED <<env, storage, uuidSeq, isValid, originalPath,
                   generatedFiles, loop, pending, transformLog, uploadLog,
                   faults, consoleLog, storage0>>

Call ==
    /\ CallBody(config)
    /\ UNCHANGED <<config, besideVars>>

\* validateImage settles (it never rejects); on true the original path is
\* generated and the upload of the original is awaited
ValidateImageReturn ==
    /\ pc = "validateImage"
    /\ \E isValidImage \in BOOLEAN :
         LET thrown == CheckValidImage(isValidImage)
             path == generateOriginalPath(args.originalFilename, uuidSeq)
         IN  /\ isValid' = Some(isValidImage)
             /\ IF IsSome(thrown)
                THEN /\ Reject(Get(thrown))
                     /\ UNCHANGED <<originalPath, uuidSeq, uploadLog>>
                ELSE /\ originalPath' = Some(path)
                     /\ uuidSeq' = uuidSeq + 1
                     /\ uploadLog' = Append(uploadLog,
                            [path |-> path, data |-> Raw(Get(args.buffer))])
                     /\ pc' = "uploadOriginal"
                     /\ UNCHANGED outcome
    /\ UNCHANGED <<config, env, storage, args, generatedFiles, loop, pending,
                   validateLog, transformLog, faults, consoleLog, storage0,
                   configAtCall, besideVars>>

\* The mutant: the loops start however the upload of the original settled.
UploadOriginalReturnUnchecked ==
    /\ pc = "uploadOriginal"
    /\ \/ /\ MaySucceed(env.storage)
          /\ storage' = Put(storage, Get(originalPath), Raw(Get(args.buffer)))
          /\ Proceed(FirstTuple(config), InitGenerated(config.formats))
          /\ UNCHANGED faults
       \/ /\ MayFail(env.storage)
          /\ faults' = [faults EXCEPT !.upload = @ \cup {Len(uploadLog)}]
          /\ Proceed(FirstTuple(config), InitGenerated(config.formats))
          /\ UNCHANGED storage
    /\ UNCHANGED <<config, env, uuidSeq, args, isValid, originalPath, pending,
                   validateLog, uploadLog, consoleLog, storage0, configAtCall,
                   besideVars>>

\* the upload of the original settles: a failure is fatal, a success starts
\* the loops
UploadOriginalReturn ==
    /\ pc = "uploadOriginal"
    /\ \/ /\ MaySucceed(env.storage)
          /\ storage' = Put(storage, Get(originalPath), Raw(Get(args.buffer)))
          /\ Proceed(FirstTuple(config), InitGenerated(config.formats))
          /\ UNCHANGED faults
       \/ /\ MayFail(env.storage)
          /\ faults' = [faults EXCEPT !.upload = @ \cup {Len(uploadLog)}]
          /\ Reject(uploadFileCatch(Get(originalPath), StorageFault))
          /\ UNCHANGED <<storage, generatedFiles, loop, transformLog>>
    /\ UNCHANGED <<config, env, uuidSeq, args, isValid, originalPath, pending,
                   validateLog, uploadLog, consoleLog, storage0, configAtCall,
                   besideVars>>

\* The mutant: a failed Transform call rejects the whole call.
TransformReturnFatal ==
    /\ pc = "transform"
    /\ \/ /\ MaySucceed(env.transform)
          /\ LET processed == processedImage(Get(args.buffer),
                                  actualSize(CurSize(loop), CurRatio(loop)),
                                  CurFormat(loop))
                 generatedFileName == variantFileName(args.originalFilename,
                                  CurSize(loop), CurFormat(loop), CurRatio(loop))
             IN  /\ pending' = Some(processed)
                 /\ uploadLog' = Append(uploadLog,
                        [path |-> generatedFileName, data |-> processed])
          /\ pc' = "uploadVariant"
          /\ UNCHANGED <<faults, consoleLog, loop, generatedFiles, outcome,
                         transformLog>>
       \/ /\ MayFail(env.transform)
          /\ faults' = [faults EXCEPT !.transform = @ \cup {Len(transformLog)}]
          /\ Reject(PlainError(<<"Transform failed">>))
          /\ UNCHANGED <<pending, uploadLog, consoleLog, loop, generatedFiles,
                         transformLog>>
    /\ UNCHANGED <<config, env, storage, uuidSeq, args, isValid, originalPath,
                   validateLog, storage0, configAtCall, besideVars>>

\* the Transform call of the current tuple settles: on success the variant
\* is named and its upload awaited, on failure the inner catch block runs
TransformReturn ==
    /\ pc = "transform"
    /\ \/ /\ MaySucceed(env.transform)
          /\ LET processed == processedImage(Get(args.buffer),
                                  actualSize(CurSize(loop), CurRatio(loop)),
                                  CurFormat(loop))
                 generatedFileName == variantFileName(args.originalFilename,
                                  CurSize(loop), CurFormat(loop), CurRatio(loop))
             IN  /\ pending' = Some(processed)
                 /\ uploadLog' = Append(uploadLog,
                        [path |-> generatedFileName, data |-> processed])
          /\ pc' = "uploadVariant"
          /\ UNCHANGED <<faults, consoleLog, loop, generatedFiles, outcome,
                         transformLog>>
       \/ /\ MayFail(env.transform)
          /\ faults' = [faults EXCEPT !.transform = @ \cup {Len(transformLog)}]
          /\ consoleLog' = Append(consoleLog, <<loop.si, loop.fi, loop.di>>)
          /\ Proceed(TupleCatch(config, loop), generatedFiles)
          /\ UNCHANGED <<pending, uploadLog>>
    /\ UNCHANGED <<config, env, storage, uuidSeq, args, isValid, originalPath,
                   validateLog, storage0, configAtCall, besideVars>>

\* The mutant: the path is pushed however the upload settled.
UploadVariantReturnAlwaysPushes ==
    /\ pc = "uploadVariant"
    /\ LET call == uploadLog[Len(uploadLog)]
           type == CurFormat(loop).type
           generatedPath == Location(env.driver, call.path)
       IN  \/ /\ MaySucceed(env.storage)
              /\ storage' = Put(storage, call.path, call.data)
              /\ UNCHANGED faults
           \/ /\ MayFail(env.storage)
              /\ faults' = [faults EXCEPT !.upload = @ \cup {Len(uploadLog)}]
              /\ UNCHANGED storage
    /\ Proceed(NextTuple(config, loop),
               [generatedFiles EXCEPT ![CurFormat(loop).type] =
                    Append(@, Location(env.driver, uploadLog[Len(uploadLog)].path))])
    /\ pending' = None
    /\ UNCHANGED <<config, env, uuidSeq, args, isValid, originalPath, validateLog,
                   uploadLog, consoleLog, storage0, configAtCall, besideVars>>

\* the upload of the current variant settles: on success the returned path
\* is pushed to the list of the format type (a TypeError when there is no
\* such list, caught by the inner catch block), on failure the inner catch
\* block runs
UploadVariantReturn ==
    /\ pc = "uploadVariant"
    /\ LET call == uploadLog[Len(uploadLog)]
           type == CurFormat(loop).type
           generatedPath == Location(env.driver, call.path)
       IN  \/ /\ MaySucceed(env.storage)
              /\ storage' = Put(storage, call.path, call.data)
              /\ IF type \in DOMAIN generatedFiles
                 THEN /\ Proceed(NextTuple(config, loop),
                            [generatedFiles EXCEPT ![type] = Append(@, generatedPath)])
                      /\ UNCHANGED consoleLog
                 ELSE /\ consoleLog' = Append(consoleLog, <<loop.si, loop.fi, loop.di>>)
                      /\ Proceed(TupleCatch(config, loop), generatedFiles)
              /\ UNCHANGED faults
           \/ /\ MayFail(env.storage)
              /\ faults' = [faults EXCEPT !.upload = @ \cup {Len(uploadLog)}]
              /\ consoleLog' = Append(consoleLog, <<loop.si, loop.fi, loop.di>>)
              /\ Proceed(TupleCatch(config, loop), generatedFiles)
              /\ UNCHANGED storage
    /\ pending' = None
    /\ UNCHANGED <<config, env, uuidSeq, args, isValid, originalPath, validateLog,
                   uploadLog, storage0, configAtCall, besideVars>>

Next ==
    \/ Call
    \/ ValidateImageReturn
    \/ UploadOriginalReturn
    \/ TransformReturn
    \/ UploadVariantReturn

Spec == Init /\ [][Next]_vars

\* the configurations of a service whose loops are followed tuple by tuple:
\* two sizes, two formats and three ratios; two sizes of one width and two
\* formats of one type; and one with each axis empty
TupleConfigs ==
    { [sizes |-> <<S320, S640>>, formats |-> <<Webp80, AvifNoQuality>>,
       dpr |-> [ratios |-> <<1, 2, 3>>]],
      [sizes |-> <<S320H240, S320>>, formats |-> <<Webp80, Webp50>>,
       dpr |-> [ratios |-> <<1, 2>>]],
      [sizes |-> <<>>, formats |-> <<Webp80>>, dpr |-> [ratios |-> <<2>>]],
      [sizes |-> <<S320>>, formats |-> <<>>, dpr |-> [ratios |-> <<2>>]],
      [sizes |-> <<S320>>, formats |-> <<Webp80, AvifNoQuality>>,
       dpr |-> [ratios |-> <<>>]] }

InitTuples ==
    /\ Init
    /\ config \in TupleConfigs

SpecTuples == InitTuples /\ [][Next]_vars

-----------------------------------------------------------------------------
(* ImagePipelineService.getImage and deleteImage, callable at any time, also  *)
(* while a processImage call is suspended                                    *)

\* StorageDriver.download of the test driver: the stored bytes, or it throws
download(store, path) ==
    IF ~Has(store, path)
    THEN [value |-> None, error |-> Some(PlainError(<<"File not found">>))]
    ELSE [value |-> Some(Lookup(store, path)), error |-> None]

\* StorageDriver.delete of the test driver: the store it leaves, and what it throws
delete(store, path) ==
    IF ~Has(store, path)
    THEN [store |-> store, error |-> Some(PlainError(<<"File not found">>))]
    ELSE [store |-> Remove(store, path), error |-> None]

\* The mutant: the driver's error is rethrown as it is.
getImageCatchRethrow(error) == error

\* getImage's catch block
getImageCatch(error) == WrapError("StorageError", <<"Failed to get image: ">>, error)

\* deleteImage's catch block
deleteImageCatch(error) == WrapError("StorageError", <<"Failed to delete image: ">>, error)

MissingPath == <<"n", "o", "n", "e", "x", "i", "s", "t", "e", "n", "t", ".", "j", "p", "g">>

\* the paths a caller asks for: what the storage holds, the path of the
\* original, a path nothing was stored at
StorePaths ==
    {o.path : o \in storage} \cup {MissingPath}
        \cup (IF IsSome(originalPath) THEN {Get(originalPath)} ELSE {})

\* uploads of this processImage call that have settled
SettledUploads ==
    Len(uploadLog) - (IF pc \in {"uploadOriginal", "uploadVariant"} THEN 1 ELSE 0)

GetImage ==
    /\ \E imagePath \in StorePaths, fault \in BOOLEAN :
         /\ fault => env.storage = "failing"
         /\ ~fault => MaySucceed(env.storage)
         /\ LET r == IF fault THEN [value |-> None, error |-> Some(StorageFault)]
                     ELSE download(storage, imagePath)
            IN  lastOp' = [op |-> "getImage", path |-> imagePath,
                           call |-> Some([method |-> "download", path |-> imagePath]),
                           settled |-> SettledUploads, fault |-> fault,
                           before |-> storage, after |-> storage,
                           value |-> r.value,
                           error |-> IF IsSome(r.error)
                                     THEN Some(getImageCatch(Get(r.error)))
                                     ELSE None]
    /\ UNCHANGED <<pipelineVars, namingVars, deletes, configVars, updateVars, validatorVars>>

DeleteImage ==
    /\ \E imagePath \in StorePaths, fault \in BOOLEAN :
         /\ fault => env.storage = "failing"
         /\ ~fault => MaySucceed(env.storage)
         /\ LET r == IF fault THEN [store |-> storage, error |-> Some(StorageFault)]
                     ELSE delete(storage, imagePath)
            IN  /\ storage' = r.store
                /\ lastOp' = [op |-> "deleteImage", path |-> imagePath,
                              call |-> Some([method |-> "delete", path |-> imagePath]),
                              settled |-> SettledUploads, fault |-> fault,
                              before |-> storage, after |-> r.store,
                              value |-> None,
                              error |-> IF IsSome(r.error)
                                        THEN Some(deleteImageCatch(Get(r.error)))
                                        ELSE None]
                /\ deletes' = IF IsSome(r.error) THEN deletes
                              ELSE deletes \cup {[path |-> imagePath,
                                                  settled |-> SettledUploads]}
    /\ UNCHANGED <<config, env, uuidSeq, pc, args, isValid, originalPath,
                   generatedFiles, loop, pending, outcome, validateLog,
                   transformLog, uploadLog, faults, consoleLog, storage0,
                   configAtCall, namingVars, configVars, updateVars, validatorVars>>

\* the configurations of the engine whose storage is read and deleted from
StoreConfigs ==
    { [sizes |-> <<S320>>, formats |-> <<Webp80>>, dpr |-> [ratios |-> <<1, 2>>]],
      [sizes |-> <<>>, formats |-> <<Webp80>>, dpr |-> [ratios |-> <<1>>]] }

InitStore ==
    /\ InitPipeline
    /\ config \in StoreConfigs
    /\ NamingIdle
    /\ StoreIdle
    /\ ConfigIdle
    /\ UpdateIdle
    /\ ValidatorIdle

NextStore ==
    \/ Call
    \/ ValidateImageReturn
    \/ UploadOriginalReturn
    \/ TransformReturn
    \/ UploadVariantReturn
    \/ GetImage
    \/ DeleteImage

SpecStore == InitStore /\ [][NextStore]_vars

-----------------------------------------------------------------------------
(* ImageProcessingConfig used by a caller.  Arrays are objects: heap is the  *)
(* sequence of the arrays allocated so far, a reference is a position in it. *)
(* The object held by _dpr is private to its configuration, so the field is  *)
(* modelled by the array its ratios property refers to.                      *)

MaxConfigOps == 3

Axes == {"sizes", "formats", "ratios"}

\* a new array
Alloc(h, axis, items) == Append(h, [axis |-> axis, items |-> items])

\* `[...array]`: a new array with the same elements
Spread(h, ref) == Alloc(h, h[ref].axis, h[ref].items)

\* array.push(item)
Push(h, ref, item) == [h EXCEPT ![ref].items = Append(@, item)]

\* array.pop()
Pop(h, ref) == [h EXCEPT ![ref].items = SubSeq(@, 1, Len(@) - 1)]

\* what size => size.width, format => format.type and r => r compare
KeyOf(axis, item) ==
    IF axis = "sizes" THEN item.width
    ELSE IF axis = "formats" THEN item.type
    ELSE item

RECURSIVE Filter(_, _, _)
Filter(axis, items, key) ==
    IF items = <<>> THEN <<>>
    ELSE (IF KeyOf(axis, items[1]) # key THEN <<items[1]>> ELSE <<>>)
             \o Filter(axis, Tail(items), key)

\* the constructor: the field initialisers, then `this._sizes = config.sizes`,
\* `this._formats = config.formats` and a copy of config.dpr for the
\* properties the argument has
constructorConfig(h, partial) ==
    LET h3 == Alloc(Alloc(Alloc(h, "sizes", DefaultConfig.sizes),
                          "formats", DefaultConfig.formats),
                    "ratios", DefaultConfig.dpr.ratios)
        h4 == IF IsSome(partial.dpr) THEN Spread(h3, Get(partial.dpr)) ELSE h3
    IN  [heap |-> h4,
         refs |-> [sizes |-> IF IsSome(partial.sizes) THEN Get(partial.sizes)
                             ELSE Len(h) + 1,
                   formats |-> IF IsSome(partial.formats) THEN Get(partial.formats)
                               ELSE Len(h) + 2,
                   ratios |-> IF IsSome(partial.dpr) THEN Len(h4) ELSE Len(h) + 3]]

\* The mutant: the getter returns the field itself.
getAxisByReference(h, c, axis) == [heap |-> h, ref |-> c[axis]]

\* get sizes / get formats / get dpr: a copy of the field's array
getAxis(h, c, axis) == [heap |-> Spread(h, c[axis]), ref |-> Len(h) + 1]

\* The mutant: the setter keeps the caller's array.
setAxisByReference(h, c, axis, arr) == [heap |-> h, refs |-> [c EXCEPT ![axis] = arr]]

\* setSizes / setFormats / setDPR: the field becomes a copy of the argument
setAxis(h, c, axis, arr) ==
    [heap |-> Spread(h, arr), refs |-> [c EXCEPT ![axis] = Len(h) + 1]]

\* addSize / addFormat: push onto the field's array
addItem(h, c, axis, item) == [heap |-> Push(h, c[axis], item), refs |-> c]

\* The mutant: the ratio is pushed without the membership test.
addDPRRatioAlways(h, c, ratio) == [heap |-> Push(h, c.ratios, ratio), refs |-> c]

addDPRRatio(h, c, ratio) ==
    IF ~(\E i \in 1..Len(h[c.ratios].items) : h[c.ratios].items[i] = ratio)
    THEN [heap |-> Push(h, c.ratios, ratio), refs |-> c]
    ELSE [heap |-> h, refs |-> c]

\* removeSize / removeFormat / removeDPRRatio: the field becomes the
\* filtered array
removeItem(h, c, axis, key) ==
    [heap |-> Alloc(h, axis, Filter(axis, h[c[axis]].items, key)),
     refs |-> [c EXCEPT ![axis] = Len(h) + 1]]

\* what the caller adds with add* and pushes onto its own arrays
AxisItems(axis) ==
    IF axis = "sizes" THEN {S320, S640}
    ELSE IF axis = "formats" THEN {Webp80, AvifNoQuality}
    ELSE {2, 4}

\* the arrays the caller starts with
CallerArrays == << [axis |-> "sizes", items |-> <<S640>>],
                   [axis |-> "formats", items |-> <<AvifNoQuality>>],
                   [axis |-> "ratios", items |-> <<1, 2>>] >>

\* the constructor's argument: omitted, or built from some of those arrays
Partials == [sizes : {None, Some(1)}, formats : {None, Some(2)}, dpr : {None, Some(3)}]

\* the value the configuration has on an axis
View(h, c, axis) == h[c[axis]].items

\* the fields of an engine's configuration after a method call on the
\* caller's configuration: while both hold one _dpr object, an assignment to
\* its ratios property (removeDPRRatio) is seen through both, and setDPR
\* gives the caller's configuration an object of its own
dprFollows(e, refs, op, axis) ==
    IF e.sharesDpr /\ axis = "ratios"
    THEN IF op = "set" THEN [e EXCEPT !.sharesDpr = FALSE]
         ELSE [e EXCEPT !.refs.ratios = refs.ratios]
    ELSE e

\* the step a method call on the configuration makes
CfgStep(r, op, axis, arg, e) ==
    /\ cfgOps < MaxConfigOps
    /\ cfgOps' = cfgOps + 1
    /\ heap' = r.heap
    /\ cfgRefs' = r.refs
    /\ engine' = dprFollows(engine, r.refs, op, axis)
    /\ lastCfgOp' = [op |-> op, axis |-> axis, arg |-> arg,
                     before |-> View(heap, cfgRefs, axis),
                     after |-> View(r.heap, r.refs, axis)]
    /\ expect' = [expect EXCEPT ![axis] = e]
    /\ UNCHANGED <<pipelineVars, namingVars, storeVars, updateVars, validatorVars>>

CfgSet ==
    \E arr \in held :
        LET axis == heap[arr].axis
        IN  /\ CfgStep(setAxis(heap, cfgRefs, axis, arr), "set", axis, Some(arr),
                       Some([arg |-> arr, from |-> "set", value |-> heap[arr].items,
                             touched |-> FALSE]))
            /\ UNCHANGED held

CfgAdd ==
    \E axis \in Axes : \E item \in AxisItems(axis) :
        /\ CfgStep(IF axis = "ratios" THEN addDPRRatio(heap, cfgRefs, item)
                   ELSE addItem(heap, cfgRefs, axis, item),
                   "add", axis, Some(item), None)
        /\ UNCHANGED held

CfgRemove ==
    \E axis \in Axes : \E item \in AxisItems(axis) :
        /\ CfgStep(removeItem(heap, cfgRefs, axis, KeyOf(axis, item)),
                   "remove", axis, Some(KeyOf(axis, item)), None)
        /\ UNCHANGED held

CfgRead ==
    \E axis \in Axes :
        LET r == getAxis(heap, cfgRefs, axis)
        IN  /\ CfgStep([heap |-> r.heap, refs |-> cfgRefs], "get", axis, None,
                       Some([arg |-> r.ref, from |-> "get",
                             value |-> r.heap[r.ref].items, touched |-> FALSE]))
            /\ held' = held \cup {r.ref}

\* the caller changes an array it holds: of the expectations, the one about
\* this array is marked, and one about an axis whose field is this array
\* (given to the constructor) ends
CallerStep(h, arr) ==
    /\ cfgOps < MaxConfigOps
    /\ cfgOps' = cfgOps + 1
    /\ heap' = h
    /\ expect' = [a \in Axes |->
                     IF IsSome(expect[a]) /\ Get(expect[a]).arg = arr
                     THEN Some([Get(expect[a]) EXCEPT !.touched = TRUE])
                     ELSE IF cfgRefs[a] = arr THEN None
                     ELSE expect[a]]
    /\ UNCHANGED <<cfgRefs, held, lastCfgOp, engine, pipelineVars, namingVars,
                   storeVars, updateVars, validatorVars>>

CallerPush ==
    \E arr \in held : \E item \in AxisItems(heap[arr].axis) :
        CallerStep(Push(heap, arr, item), arr)

CallerPop ==
    \E arr \in held :
        /\ heap[arr].items # <<>>
        /\ CallerStep(Pop(heap, arr), arr)

InitConfig ==
    /\ InitPipeline
    /\ config = DefaultConfig
    /\ env = [transform |-> "flaky", storage |-> "flaky", driver |-> "local"]
    /\ storage = {}
    /\ NamingIdle
    /\ StoreIdle
    /\ \E partial \in Partials :
         /\ heap = constructorConfig(CallerArrays, partial).heap
         /\ cfgRefs = constructorConfig(CallerArrays, partial).refs
    /\ held = {1, 2, 3}
    /\ expect = NoExpect
    /\ lastCfgOp = NoCfgOp
    /\ cfgOps = 0
    /\ engine = NoEngine
    /\ UpdateIdle
    /\ ValidatorIdle

NextConfig ==
    \/ CfgSet
    \/ CfgAdd
    \/ CfgRemove
    \/ CfgRead
    \/ CallerPush
    \/ CallerPop

SpecConfig == InitConfig /\ [][NextConfig]_vars

-----------------------------------------------------------------------------
(* An engine of that program: it was constructed with a configuration of     *)
(* its own, and the caller passes the configuration it set up to             *)
(* updateConfig.                                                             *)

\* `Object.assign(this.config, config)`: the own enumerable properties of the
\* argument are _sizes, _formats and _dpr, and each is assigned as it is:
\* the two arrays and the _dpr object are then held by both configurations
updateConfigFields(e, c) == [refs |-> c, sharesDpr |-> TRUE, updated |-> TRUE]

\* the value the engine's configuration has on an axis
EngineView(h, e, axis) == h[e.refs[axis]].items

\* the step a call on the engine or on its configuration makes
EngineStep(h, e, c, op, axis, arg) ==
    /\ cfgOps < MaxConfigOps
    /\ cfgOps' = cfgOps + 1
    /\ heap' = h
    /\ engine' = e
    /\ cfgRefs' = c
    /\ lastCfgOp' = [op |-> op, axis |-> axis, arg |-> arg,
                     before |-> IF axis \in Axes THEN EngineView(heap, engine, axis)
                                ELSE <<>>,
                     after |-> IF axis \in Axes THEN EngineView(h, e, axis) ELSE <<>>]
    /\ UNCHANGED <<held, expect, pipelineVars, namingVars, storeVars, updateVars,
                   validatorVars>>

\* engine.updateConfig(c)
EngineUpdateConfig ==
    EngineStep(heap, updateConfigFields(engine, cfgRefs), cfgRefs,
               "updateConfig", "none", None)

\* addSize / addFormat / addDPRRatio on the engine's configuration
EngineAdd ==
    \E axis \in Axes : \E item \in AxisItems(axis) :
        LET r == IF axis = "ratios" THEN addDPRRatio(heap, engine.refs, item)
                 ELSE addItem(heap, engine.refs, axis, item)
        IN  EngineStep(r.heap, engine, cfgRefs, "engine.add", axis, Some(item))

\* removeSize / removeFormat / removeDPRRatio on the engine's configuration:
\* the assignment to the ratios property of a _dpr object that the caller's
\* configuration holds too is seen through both
EngineRemove ==
    \E axis \in Axes : \E item \in AxisItems(axis) :
        LET r == removeItem(heap, engine.refs, axis, KeyOf(axis, item))
        IN  EngineStep(r.heap, [engine EXCEPT !.refs = r.refs],
                       IF engine.sharesDpr /\ axis = "ratios"
                       THEN [cfgRefs EXCEPT !.ratios = r.refs.ratios]
                       ELSE cfgRefs,
                       "engine.remove", axis, Some(KeyOf(axis, item)))

\* the caller's configuration as in InitConfig, and an engine constructed
\* with a configuration that has the defaults
InitEngine ==
    /\ InitPipeline
    /\ config = DefaultConfig
    /\ env = [transform |-> "flaky", storage |-> "flaky", driver |-> "local"]
    /\ storage = {}
    /\ NamingIdle
    /\ StoreIdle
    /\ \E partial \in Partials :
         LET c == constructorConfig(CallerArrays, partial)
             e == constructorConfig(c.heap, [sizes |-> None, formats |-> None,
                                             dpr |-> None])
         IN  /\ heap = e.heap
             /\ cfgRefs = c.refs
             /\ engine = [refs |-> e.refs, sharesDpr |-> FALSE, updated |-> FALSE]
    /\ held = {1, 2, 3}
    /\ expect = NoExpect
    /\ lastCfgOp = NoCfgOp
    /\ cfgOps = 0
    /\ UpdateIdle
    /\ ValidatorIdle

NextEngine ==
    \/ CfgSet
    \/ CfgAdd
    \/ CfgRemove
    \/ EngineUpdateConfig
    \/ EngineAdd
    \/ EngineRemove

SpecEngine == InitEngine /\ [][NextEngine]_vars

-----------------------------------------------------------------------------
(* ImagePipelineService.updateConfig, called by another caller at any time,  *)
(* and the caller that overrides the configuration for one processImage call *)

MaxUpdates == 2

\* Object.assign(target, source): every own property of source is written
\* to target; the own properties of an ImageProcessingConfig are its fields
ObjectAssign(target, source) ==
    [f \in (DOMAIN target) \cup (DOMAIN source) |->
        IF f \in DOMAIN source THEN source[f] ELSE target[f]]

\* The mutant: the DPR configuration is not taken over.
updateConfigSizesFormats(active, newConfig) ==
    [active EXCEPT !.sizes = newConfig.sizes, !.formats = newConfig.formats]

updateConfig(active, newConfig) == ObjectAssign(active, newConfig)

\* the engine's configuration when the service is constructed
UpdateStart == [sizes |-> <<S320, S640>>, formats |-> <<Webp80>>, dpr |-> [ratios |-> <<2>>]]

\* the configurations passed to updateConfig
UpdateConfigs ==
    { [sizes |-> <<S640>>, formats |-> <<AvifNoQuality>>, dpr |-> [ratios |-> <<1>>]],
      [sizes |-> <<S320>>, formats |-> <<Webp80, AvifNoQuality>>,
       dpr |-> [ratios |-> <<2>>]] }

\* `this.imagePipeline.config` evaluates to the engine's configuration object
\* itself: what the name refers to is what that object holds when it is read
EngineConfigObject == "engine"

Deref(ref) == IF ref = EngineConfigObject THEN config ELSE Get(idiom.custom)

InFlight == pc \notin {"idle", "resolved", "rejected"}

UpdateConfig ==
    /\ lastUpdate.n < MaxUpdates
    /\ \E newConfig \in UpdateConfigs :
         /\ config' = updateConfig(config, newConfig)
         /\ lastUpdate' = [n |-> lastUpdate.n + 1, arg |-> Some(newConfig), at |-> pc]
    /\ idiom' = IF idiom.state = "none" THEN idiom
                ELSE [idiom EXCEPT !.alone = FALSE]
    /\ UNCHANGED <<env, storage, uuidSeq, pc, args, isValid, originalPath,
                   generatedFiles, loop, pending, outcome, validateLog,
                   transformLog, uploadLog, faults, consoleLog, storage0,
                   configAtCall, namingVars, storeVars, configVars, validatorVars>>

\* processWithCustomConfig up to its await: the configuration is saved, the
\* custom one applied, processImage called
IdiomStart ==
    /\ idiom.state = "none"
    /\ \E customConfig \in UpdateConfigs :
         LET active == updateConfig(config, customConfig)
         IN  /\ idiom' = [state |-> "running", saved |-> EngineConfigObject,
                          custom |-> Some(customConfig), before |-> Some(config),
                          alone |-> TRUE]
             /\ config' = active
             /\ lastUpdate' = [n |-> lastUpdate.n, arg |-> Some(customConfig),
                               at |-> pc]
             /\ CallBody(active)
    /\ UNCHANGED <<namingVars, storeVars, configVars, validatorVars>>

\* its finally block, once processImage has settled
IdiomFinish ==
    /\ idiom.state = "running"
    /\ pc \in {"resolved", "rejected"}
    /\ config' = updateConfig(config, Deref(idiom.saved))
    /\ lastUpdate' = [n |-> lastUpdate.n, arg |-> Some(Deref(idiom.saved)), at |-> pc]
    /\ idiom' = [idiom EXCEPT !.state = "restored"]
    /\ UNCHANGED <<env, storage, uuidSeq, pc, args, isValid, originalPath,
                   generatedFiles, loop, pending, outcome, validateLog,
                   transformLog, uploadLog, faults, consoleLog, storage0,
                   configAtCall, namingVars, storeVars, configVars, validatorVars>>

InitUpdate ==
    /\ InitPipeline
    /\ config = UpdateStart
    /\ NamingIdle
    /\ StoreIdle
    /\ ConfigIdle
    /\ UpdateIdle
    /\ ValidatorIdle

NextUpdate ==
    \/ Call
    \/ ValidateImageReturn
    \/ UploadOriginalReturn
    \/ TransformReturn
    \/ UploadVariantReturn
    \/ UpdateConfig
    \/ IdiomStart
    \/ IdiomFinish

SpecUpdate == InitUpdate /\ [][NextUpdate]_vars

\* an engine with the local driver and an empty Storage
InitUpdateFair ==
    /\ InitUpdate
    /\ env.driver = "local"
    /\ storage = {}

\* every call of a capability settles: an awaited promise that can settle
\* eventually does
SpecUpdateFair ==
    /\ InitUpdateFair
    /\ [][NextUpdate]_vars
    /\ WF_vars(ValidateImageReturn)
    /\ WF_vars(UploadOriginalReturn)
    /\ WF_vars(TransformReturn)
    /\ WF_vars(UploadVariantReturn)

-----------------------------------------------------------------------------
(* FileNamingUtils.generateFileName called directly *)

NameInputs == { <<"p", "i", "c", ".", "j", "p", "g">>,
                <<"a", ".", "b", ".", "P", "N", "G">>,
                <<"n", "o", "e", "x", "t">>,
                <<".", "e", "n", "v">>,
                <<"e", "n", "d", ".">> }

WidthInputs == {0, 7, 320, 640, 1024}

FormatInputs == {Webp, Avif, <<"j", "p", "e", "g">>, <<"p", "n", "g">>}

DprInputs == {None, Some(1), Some(2), Some(3), Some(10)}

InitNaming ==
    /\ InitPipeline
    /\ config = DefaultConfig
    /\ env = [transform |-> "flaky", storage |-> "flaky", driver |-> "local"]
    /\ storage = {}
    /\ nameArgs \in [originalName : NameInputs, width : WidthInputs,
                     format : FormatInputs, dpr : DprInputs]
    /\ nameResult = None
    /\ StoreIdle
    /\ ConfigIdle
    /\ UpdateIdle
    /\ ValidatorIdle

GenerateFileName ==
    /\ nameResult = None
    /\ nameResult' = Some(generateFileName(nameArgs.originalName, nameArgs.width,
                                           nameArgs.format, nameArgs.dpr))
    /\ UNCHANGED <<nameArgs, pipelineVars, storeVars, configVars, updateVars,
                   validatorVars>>

NextNaming == GenerateFileName

SpecNaming == InitNaming /\ [][NextNaming]_vars

-----------------------------------------------------------------------------
(* ImageValidator called directly: validateExtension and validateFile *)

\* file names: every supported extension, in lower, upper and mixed case,
\* and names without a dot, with an empty, a hidden-file or a second suffix
ValidatorFileNames ==
    FileNames \cup { <<"f">> \o e : e \in SUPPORTED_EXTENSIONS } \cup
    { <<"f", ".", "J", "P", "G">>, <<"f", ".", "J", "p", "e", "G">>,
      <<"f", ".", "S", "V", "G">>, <<"f", ".", "T", "i", "f", "f">>,
      <<"j", "p", "g">>, <<"f", ".">>, <<".", "j", "p", "g">>, <<>>,
      <<"f", ".", "j", "p", "g", ".", "e", "x", "e">>,
      <<"f", ".", "e", "x", "e", ".", "j", "p", "g">>,
      <<"f", ".", "j", "p", "g", "x">>, <<"f", ".", "j", "p">>,
      <<"f", ".", "t", "i", "f">> }

ValidatorMimeTypes ==
    MimeTypes \cup { Some(<<>>),
                     Some(<<"i", "m", "a", "g", "e", "/", "p", "n", "g">>) }

ValidatorMaxSizes == MaxSizeArgs \cup {Some(0), Some(3)}

ValidateExtension ==
    /\ validation.op = "validateExtension"
    /\ ~validation.returned
    /\ validation' = [validation EXCEPT
                          !.returned = TRUE,
                          !.thrown = validateExtension(validation.filename)]
    /\ UNCHANGED <<pipelineVars, namingVars, storeVars, configVars, updateVars>>

ValidateFile ==
    /\ validation.op = "validateFile"
    /\ ~validation.returned
    /\ validation' = [validation EXCEPT
                          !.returned = TRUE,
                          !.thrown = validateFile(validation.buffer,
                                                  validation.filename,
                                                  validation.mimeType,
                                                  validation.maxSizeInBytes)]
    /\ UNCHANGED <<pipelineVars, namingVars, storeVars, configVars, updateVars>>

InitValidator ==
    /\ InitPipeline
    /\ config = DefaultConfig
    /\ env = [transform |-> "flaky", storage |-> "flaky", driver |-> "local"]
    /\ storage = {}
    /\ NamingIdle
    /\ StoreIdle
    /\ ConfigIdle
    /\ UpdateIdle
    /\ \/ validation \in [op : {"validateExtension"}, buffer : {None},
                          filename : ValidatorFileNames, mimeType : {None},
                          maxSizeInBytes : {None}, returned : {FALSE},
                          thrown : {None}]
       \/ validation \in [op : {"validateFile"}, buffer : Buffers,
                          filename : ValidatorFileNames,
                          mimeType : ValidatorMimeTypes,
                          maxSizeInBytes : ValidatorMaxSizes, returned : {FALSE},
                          thrown : {None}]

NextValidator ==
    \/ ValidateExtension
    \/ ValidateFile

SpecValidator == InitValidator /\ [][NextValidator]_vars

-----------------------------------------------------------------------------
(* What the claims speak of, stated without the operators of the code *)

\* the decimal numeral of n, 0 <= n < 10000, leading zeros dropped
Numeral(n) ==
    LET all == <<DigitChars[(n \div 1000) + 1], DigitChars[((n \div 100) % 10) + 1],
                 DigitChars[((n \div 10) % 10) + 1], DigitChars[(n % 10) + 1]>>
        first == IF n >= 1000 THEN 1 ELSE IF n >= 100 THEN 2 ELSE IF n >= 10 THEN 3 ELSE 4
    IN  SubSeq(all, first, 4)

\* name with its last '.'-delimited suffix removed, the whole name without '.'
StripLastSuffix(name) ==
    IF \A i \in 1..Len(name) : name[i] # "."
    THEN name
    ELSE LET k == CHOOSE i \in 1..Len(name) :
                      name[i] = "." /\ \A j \in (i + 1)..Len(name) : name[j] # "."
         IN  [i \in 1..(k - 1) |-> name[i]]

\* "<basename>_<width>w@<dpr>x.<format>"
VariantName(name, width, format, dpr) ==
    StripLastSuffix(name) \o <<"_">> \o Numeral(width) \o <<"w", "@">>
        \o Numeral(dpr) \o <<"x", ".">> \o format

PicJpg == <<"p", "i", "c", ".", "j", "p", "g">>

\* C9: generateFileName(originalName, width, format, dpr) returns exactly
\* "<basename>_<width>w@<dpr>x.<format>", basename being originalName without
\* its last '.'-delimited suffix (the whole name when it has no '.'), and dpr
\* being 1 when omitted; ("pic.jpg", 320, "webp", 2) gives "pic_320w@2x.webp"
\* and ("pic.jpg", 320, "webp") gives "pic_320w@1x.webp".
C9_FileNameFormat ==
    IsSome(nameResult) =>
        /\ Get(nameResult) =
               VariantName(nameArgs.originalName, nameArgs.width, nameArgs.format,
                           IF IsSome(nameArgs.dpr) THEN Get(nameArgs.dpr) ELSE 1)
        /\ (nameArgs = [originalName |-> PicJpg, width |-> 320, format |-> Webp,
                        dpr |-> Some(2)])
             => Get(nameResult) = <<"p", "i", "c", "_", "3", "2", "0", "w", "@", "2",
                                    "x", ".", "w", "e", "b", "p">>
        /\ (nameArgs = [originalName |-> PicJpg, width |-> 320, format |-> Webp,
                        dpr |-> None])
             => Get(nameResult) = <<"p", "i", "c", "_", "3", "2", "0", "w", "@", "1",
                                    "x", ".", "w", "e", "b", "p">>

\* a name with two dots was formatted with the dpr argument omitted
C9_Witness ==
    /\ IsSome(nameResult)
    /\ nameArgs.originalName = <<"a", ".", "b", ".", "P", "N", "G">>
    /\ nameArgs.dpr = None
    /\ nameArgs.width = 1024

-----------------------------------------------------------------------------
(* The combination space of a configuration, in closed form *)

NumTuples(cfg) == Len(cfg.sizes) * Len(cfg.formats) * Len(cfg.dpr.ratios)

\* the k-th tuple in size-major, format-middle, dpr-minor order
TupleAt(cfg, k) ==
    LET nf == Len(cfg.formats)
        nr == Len(cfg.dpr.ratios)
    IN  [size |-> cfg.sizes[((k - 1) \div (nf * nr)) + 1],
         format |-> cfg.formats[(((k - 1) \div nr) % nf) + 1],
         dpr |-> cfg.dpr.ratios[((k - 1) % nr) + 1]]

ConfiguredTypes == {config.formats[j].type : j \in 1..Len(config.formats)}

Resolved == pc = "resolved"

Rejected == pc = "rejected"

Result == Get(outcome)

Thrown == Get(outcome).error

\* the upload of the original has settled with success
OriginalUploaded ==
    /\ Len(uploadLog) >= 1
    /\ pc # "uploadOriginal"
    /\ 1 \notin faults.upload

\* the k-th Transform call has settled with success
TransformSucceeded(k) ==
    /\ k \in 1..Len(transformLog)
    /\ k \notin faults.transform
    /\ ~(pc = "transform" /\ k = Len(transformLog))

\* the upload that follows the k-th Transform call, as a position of uploadLog
UploadOf(k) == 1 + Cardinality({j \in 1..k : j \notin faults.transform})

\* the k-th tuple has been transformed and its upload has settled with success
TupleStored(k) ==
    /\ TransformSucceeded(k)
    /\ UploadOf(k) \in 1..Len(uploadLog)
    /\ UploadOf(k) \notin faults.upload
    /\ ~(pc = "uploadVariant" /\ UploadOf(k) = Len(uploadLog))

\* the path Storage returns for the variant of tuple tp
ReturnedPath(tp) ==
    Location(env.driver,
             VariantName(args.originalFilename, tp.size.width, tp.format.type, tp.dpr))

\* the returned paths of the stored tuples of format type t among the first n
\* tuples, in order
RECURSIVE StoredOfType(_, _)
StoredOfType(t, n) ==
    IF n = 0 THEN <<>>
    ELSE StoredOfType(t, n - 1) \o
         (IF TupleAt(config, n).format.type = t /\ TupleStored(n)
          THEN <<ReturnedPath(TupleAt(config, n))>>
          ELSE <<>>)

\* C1 as stated: with capabilities that never fail, generated[t] holds exactly
\* one entry per (size, dpr) pair, size-major and dpr-minor, for every
\* configuration; an empty sizes or DPR axis gives empty lists and no error.
C1_OnePerSizeDprPair ==
    /\ (faults = NoFaults /\ isValid = Some(TRUE)) => ~Rejected
    /\ (Resolved /\ faults = NoFaults) =>
         \A t \in ConfiguredTypes :
            LET nr == Len(config.dpr.ratios)
            IN  Result.generated[t] =
                  [k \in 1..(Len(config.sizes) * nr) |->
                     Location(env.driver,
                        VariantName(args.originalFilename,
                                    config.sizes[((k - 1) \div nr) + 1].width, t,
                                    config.dpr.ratios[((k - 1) % nr) + 1]))]

\* C1 as amended: with capabilities that never fail, generated[t] holds
\* exactly one entry per (size, format of type t, dpr) tuple, size-major, then
\* in format order, dpr-minor; that is one entry per (size, dpr) pair when t is
\* the type of one configured format, and c entries per pair when it is the
\* type of c of them.  An empty sizes or DPR axis gives empty lists, an empty
\* formats axis no list, and no error.
C1_OnePerTupleOfType ==
    /\ (faults = NoFaults /\ isValid = Some(TRUE)) => ~Rejected
    /\ (Resolved /\ faults = NoFaults) =>
         \A t \in ConfiguredTypes :
            LET nr == Len(config.dpr.ratios)
                c == Cardinality({j \in 1..Len(config.formats) :
                                     config.formats[j].type = t})
            IN  Result.generated[t] =
                  [k \in 1..(Len(config.sizes) * c * nr) |->
                     Location(env.driver,
                        VariantName(args.originalFilename,
                                    config.sizes[((k - 1) \div (c * nr)) + 1].width, t,
                                    config.dpr.ratios[((k - 1) % nr) + 1]))]

\* sizes [320, 640], formats [webp, avif], dpr [1, 2, 3], nothing failed:
\* six entries per format
C1_Witness ==
    /\ Resolved
    /\ faults = NoFaults
    /\ config.sizes = <<S320, S640>>
    /\ config.formats = <<Webp80, AvifNoQuality>>
    /\ config.dpr.ratios = <<1, 2, 3>>
    /\ Len(Result.generated[Webp]) = 6
    /\ Len(Result.generated[Avif]) = 6

\* C2: partial failure isolation.  Whatever subset of the Transform calls
\* fails, once the original is stored the call never rejects; when it
\* resolves, every tuple of the combination space has been attempted, in
\* order; each list holds the tuples that did not fail, in the normal order,
\* and the failed ones are absent; when every Transform call fails the result
\* has the original path and an empty list for each configured format.
C2_PartialFailureIsolation ==
    /\ OriginalUploaded => ~Rejected
    /\ Resolved =>
         /\ Len(transformLog) = NumTuples(config)
         /\ \A k \in 1..Len(transformLog) :
               /\ transformLog[k].format = TupleAt(config, k).format
               /\ transformLog[k].size.width =
                     TupleAt(config, k).size.width * TupleAt(config, k).dpr
         /\ Result.original = Get(originalPath)
         /\ faults.upload = {} =>
               \A t \in ConfiguredTypes :
                  Result.generated[t] = StoredOfType(t, NumTuples(config))
         /\ faults.transform = 1..NumTuples(config) =>
               \A t \in ConfiguredTypes : Result.generated[t] = <<>>

\* the Transform call failed for exactly the tuple (640, avif, 2) of twelve
C2_Witness ==
    /\ Resolved
    /\ config.sizes = <<S320, S640>>
    /\ config.formats = <<Webp80, AvifNoQuality>>
    /\ config.dpr.ratios = <<1, 2, 3>>
    /\ faults = [transform |-> {11}, upload |-> {}]
    /\ Len(Result.generated[Webp]) = 6
    /\ Len(Result.generated[Avif]) = 5

\* C3: when Storage.upload fails for the original path, processImage rejects
\* with StorageError, returns no result, and the Transform capability's
\* processImage is never invoked.
C3_OriginalUploadFailureIsFatal ==
    (Len(uploadLog) >= 1 /\ 1 \in faults.upload) =>
        /\ Rejected
        /\ Result.tag = "error"
        /\ Thrown.kind = "StorageError"
        /\ transformLog = <<>>
        /\ generatedFiles = EmptyMap

\* the upload of the original failed
C3_Witness ==
    /\ Rejected
    /\ uploadLog # <<>>
    /\ 1 \in faults.upload
    /\ NumTuples(config) > 0

ValidationKinds == {"ImageValidationError", "UnsupportedImageFormatError"}

\* the call was rejected by what ImageValidator.validateFile threw
RejectedByGate == Rejected /\ Thrown.cause \in ValidationKinds

BufferEmptyOrAbsent == ~IsSome(args.buffer) \/ Len(Get(args.buffer)) = 0

\* the suffix from the last '.' on, lower-cased, is not an allowed extension
ExtensionUnsupported ==
    LET name == args.originalFilename
        suffix == SubSeq(name, Len(StripLastSuffix(name)) + 1, Len(name))
    IN  toLowerCase(suffix) \notin SUPPORTED_EXTENSIONS

MimeTypeUnsupported ==
    /\ IsSome(args.mimeType)
    /\ Get(args.mimeType) # <<>>
    /\ toLowerCase(Get(args.mimeType)) \notin SUPPORTED_MIME_TYPES

Oversize ==
    /\ IsSome(args.buffer)
    /\ IsSome(args.maxSizeInBytes)
    /\ Get(args.maxSizeInBytes) > 0
    /\ Len(Get(args.buffer)) > Get(args.maxSizeInBytes)

\* C4: validation precedence.  An input with empty or absent bytes, an
\* unsupported extension, an unsupported supplied MIME type or a size above
\* the supplied maximum is rejected by the gate, and a call the gate rejects
\* has invoked no Transform operation (validateImage or processImage) and no
\* Storage upload, so the storage contents are what they were.
C4_ValidationPrecedence ==
    /\ (pc # "idle" /\ (BufferEmptyOrAbsent \/ ExtensionUnsupported
                          \/ MimeTypeUnsupported \/ Oversize))
         => RejectedByGate
    /\ RejectedByGate =>
         /\ validateLog = <<>>
         /\ transformLog = <<>>
         /\ uploadLog = <<>>
         /\ storage = storage0

\* a call with a present, non-empty buffer and an unsupported extension was
\* rejected while the storage held an object
C4_Witness ==
    /\ RejectedByGate
    /\ ~BufferEmptyOrAbsent
    /\ ExtensionUnsupported
    /\ storage # {}

\* C5 as stated: an empty buffer or an oversize input makes processImage
\* reject with ImageValidationError, an unsupported extension or MIME type
\* with UnsupportedImageFormatError.
C5_ValidationErrorsKeepTheirKind ==
    RejectedByGate =>
        /\ (BufferEmptyOrAbsent \/ Oversize) => Thrown.kind = "ImageValidationError"
        /\ (~BufferEmptyOrAbsent /\ (ExtensionUnsupported \/ MimeTypeUnsupported))
             => Thrown.kind = "UnsupportedImageFormatError"

C7_GeneratedKeysAreConfiguredTypes ==
    Resolved =>
        /\ Result.tag = "result"
        /\ DOMAIN Result.generated = ConfiguredTypes

\* every combination of two configured types failed and both are keys
C7_Witness ==
    /\ Resolved
    /\ env.transform = "failing"
    /\ NumTuples(config) > 0
    /\ ConfiguredTypes = {Webp, Avif}
    /\ DOMAIN Result.generated = {Webp, Avif}
    /\ \A t \in ConfiguredTypes : Result.generated[t] = <<>>

\* C8: when the gate passes and validateImage returns false, processImage
\* rejects with ImageProcessingFailedError and performs no Storage upload,
\* neither of the original nor of a variant.
C8_UndecodableImageRejected ==
    isValid = Some(FALSE) =>
        /\ Rejected
        /\ Thrown.kind = "ImageProcessingFailedError"
        /\ Thrown.cause = "none"
        /\ uploadLog = <<>>
        /\ originalPath = None
        /\ transformLog = <<>>
        /\ storage = storage0

\* validateImage returned false for an input the gate let through
C8_Witness ==
    /\ isValid = Some(FALSE)
    /\ validateLog # <<>>
    /\ IsSome(args.mimeType)
    /\ IsSome(args.maxSizeInBytes)

\* the k-th Transform call has the effective size of its tuple, and its
\* output, when there is one, is uploaded under the nominal name
EffectiveSizeNominalName(k) ==
    LET tp == TupleAt(config, k)
    IN  /\ transformLog[k].size.width = tp.size.width * tp.dpr
        /\ transformLog[k].size.height =
              (IF IsSome(tp.size.height)
               THEN Some(Get(tp.size.height) * tp.dpr)
               ELSE None)
        /\ transformLog[k].format = tp.format
        /\ TransformSucceeded(k) =>
              /\ UploadOf(k) \in 1..Len(uploadLog)
              /\ uploadLog[UploadOf(k)].path =
                    VariantName(args.originalFilename, tp.size.width,
                                tp.format.type, tp.dpr)

\* C10: every Transform call is made with width = size.width * dpr and with
\* height = size.height * dpr when the size has a height (no height
\* otherwise), and the variant is uploaded under the name that embeds the
\* nominal width and the dpr.  While the call is in flight the latest
\* Transform call is looked at (the logs only grow), and every one of them
\* once the call has settled.
C10_EffectiveSizeNominalName ==
    IF InFlight
    THEN transformLog # <<>> => EffectiveSizeNominalName(Len(transformLog))
    ELSE \A k \in 1..Len(transformLog) : EffectiveSizeNominalName(k)

\* size 320x240 at dpr 2: a 640x480 transform stored as "pic_320w@2x.webp"
C10_Witness ==
    \E k \in 1..Len(transformLog) :
        /\ TupleAt(config, k).size = S320H240
        /\ TupleAt(config, k).dpr = 2
        /\ transformLog[k].size = [width |-> 640, height |-> Some(480)]
        /\ TupleStored(k)
        /\ uploadLog[UploadOf(k)].path =
              <<"p", "i", "c", "_", "3", "2", "0", "w", "@", "2", "x", ".",
                "w", "e", "b", "p">>
        /\ \E o \in storage : o.path = uploadLog[UploadOf(k)].path
                              /\ o.data = uploadLog[UploadOf(k)].data

-----------------------------------------------------------------------------
(* getImage and deleteImage *)

\* the object a store holds at a path
StoredAt(store, path) == {o.data : o \in {x \in store : x.path = path}}

\* C11: getImage(path) and deleteImage(path) act on exactly that path of the
\* storage (the bytes returned are the ones stored there, the object deleted
\* is the one stored there and no other); whenever the storage operation
\* fails, as it does for a path that holds nothing, the call rejects with a
\* StorageError that wraps the storage's own error, never with that error
\* itself, and a failed deleteImage leaves the storage contents unchanged.
C11_StoreOpsWrapFailures ==
    lastOp.op \in {"getImage", "deleteImage"} =>
        /\ (lastOp.fault \/ StoredAt(lastOp.before, lastOp.path) = {})
              => IsSome(lastOp.error)
        /\ IsSome(lastOp.error) =>
              /\ Get(lastOp.error).kind = "StorageError"
              /\ Get(lastOp.error).cause = "Error"
              /\ lastOp.value = None
              /\ lastOp.after = lastOp.before
        /\ (lastOp.op = "getImage" /\ ~IsSome(lastOp.error)) =>
              /\ StoredAt(lastOp.before, lastOp.path) = {Get(lastOp.value)}
              /\ lastOp.after = lastOp.before
        /\ (lastOp.op = "deleteImage" /\ ~IsSome(lastOp.error)) =>
              /\ StoredAt(lastOp.before, lastOp.path) # {}
              /\ lastOp.after = {o \in lastOp.before : o.path # lastOp.path}

\* deleteImage of a path that holds nothing failed while the storage held
\* the original and a variant
C11_Witness ==
    /\ lastOp.op = "deleteImage"
    /\ lastOp.path = MissingPath
    /\ IsSome(lastOp.error)
    /\ ~lastOp.fault
    /\ Cardinality(lastOp.before) >= 2
    /\ storage = lastOp.before

\* the uploads at a path that had settled with success when the last
\* getImage / deleteImage call was made
UploadsAt(path) ==
    {k \in 1..lastOp.settled : uploadLog[k].path = path /\ k \notin faults.upload}

Latest(K) == CHOOSE k \in K : \A j \in K : j <= k

\* C12: once the original is stored, getImage of the path of the original
\* returns exactly the input bytes as long as no deleteImage of that path has
\* happened; and getImage(p) returns the bytes most recently uploaded at p
\* (when p has not been deleted since that upload).
C12_OriginalRoundTrip ==
    (lastOp.op = "getImage" /\ ~lastOp.fault) =>
        /\ ( /\ IsSome(originalPath)
             /\ lastOp.path = Get(originalPath)
             /\ lastOp.settled >= 1
             /\ 1 \notin faults.upload
             /\ \A d \in deletes : d.path # lastOp.path )
             => /\ lastOp.error = None
                /\ lastOp.value = Some([bytes |-> Get(args.buffer), enc |-> None])
        /\ ( /\ UploadsAt(lastOp.path) # {}
             /\ \A d \in deletes :
                    d.path = lastOp.path => d.settled < Latest(UploadsAt(lastOp.path)) )
             => /\ lastOp.error = None
                /\ lastOp.value = Some(uploadLog[Latest(UploadsAt(lastOp.path))].data)

\* processImage returned, a variant was deleted, and getImage of the returned
\* original path gave the input bytes
C12_Witness ==
    /\ Resolved
    /\ lastOp.op = "getImage"
    /\ lastOp.path = Result.original
    /\ lastOp.settled = Len(uploadLog)
    /\ lastOp.value = Some([bytes |-> <<7, 8>>, enc |-> None])
    /\ deletes # {}

-----------------------------------------------------------------------------
(* ImageProcessingConfig *)

\* C13: after setSizes(arr), setFormats(arr) or setDPR({ratios}), appending
\* to or removing from the caller's array does not change what the getter
\* returns; and changing the array one read of a getter returned does not
\* change what a later read returns: as long as no method of the
\* configuration changes that axis, the configuration has the value the
\* array had when it was given or returned.
C13_CopyIsolation ==
    \A a \in Axes :
        IsSome(expect[a]) => View(heap, cfgRefs, a) = Get(expect[a]).value

\* the caller gave an array to setSizes and has since changed it, and the
\* configuration was read after that
C13_Witness ==
    /\ IsSome(expect.sizes)
    /\ Get(expect.sizes).from = "set"
    /\ Get(expect.sizes).touched
    /\ heap[Get(expect.sizes).arg].items # Get(expect.sizes).value
    /\ View(heap, cfgRefs, "sizes") = <<S640>>
    /\ lastCfgOp.op = "get"

\* C14: addDPRRatio(r) leaves the ratio list as it is (length, contents and
\* order) when the list includes r, and otherwise appends r once at the end.
C14_AddDPRRatioIdempotent ==
    (lastCfgOp.op = "add" /\ lastCfgOp.axis = "ratios") =>
        LET r == Get(lastCfgOp.arg)
            before == lastCfgOp.before
        IN  lastCfgOp.after =
                (IF \E i \in 1..Len(before) : before[i] = r
                 THEN before
                 ELSE before \o <<r>>)

\* addDPRRatio(2) was called twice on ratios that did not include 2
C14_Witness ==
    /\ lastCfgOp.op = "add"
    /\ lastCfgOp.axis = "ratios"
    /\ lastCfgOp.arg = Some(2)
    /\ lastCfgOp.before = <<1, 3, 2>>
    /\ lastCfgOp.after = <<1, 3, 2>>

-----------------------------------------------------------------------------
(* updateConfig *)

\* the call has enumerated exactly the combination space of cfg0: its
\* Transform calls are the tuples of cfg0 in order, the keys of its result
\* the format types of cfg0
Enumerated(cfg0) ==
    /\ Len(transformLog) = NumTuples(cfg0)
    /\ \A k \in 1..Len(transformLog) :
          /\ transformLog[k].format = TupleAt(cfg0, k).format
          /\ transformLog[k].size.width =
                TupleAt(cfg0, k).size.width * TupleAt(cfg0, k).dpr
    /\ DOMAIN Result.generated = FormatTypes(cfg0.formats)

\* C15: updateConfig(newConfig) replaces the active configuration: after it
\* the engine's sizes, formats and DPR ratios are those of newConfig, and a
\* processImage call started after it (newConfig still being the last
\* configuration given to updateConfig when the call returns) enumerates the
\* combination space of newConfig and not that of the configuration before.
C15_UpdateConfigReplaces ==
    IsSome(lastUpdate.arg) =>
        /\ config.sizes = Get(lastUpdate.arg).sizes
        /\ config.formats = Get(lastUpdate.arg).formats
        /\ config.dpr.ratios = Get(lastUpdate.arg).dpr.ratios
        /\ (Resolved /\ lastUpdate.at = "idle") => Enumerated(Get(lastUpdate.arg))

\* updateConfig was called with one size, avif and ratio 1 on an engine
\* configured with two sizes, webp and ratio 2; the call made after it has
\* returned
C15_Witness ==
    /\ Resolved
    /\ lastUpdate.n = 1
    /\ lastUpdate.at = "idle"
    /\ idiom.state = "none"
    /\ Get(lastUpdate.arg).formats = <<AvifNoQuality>>
    /\ Len(transformLog) = 1
    /\ transformLog[1].size.width = 640
    /\ DOMAIN Result.generated = {Avif}

\* C16 as stated: a processImage call uses one configuration for its whole
\* duration, the one active when it started, whatever updateConfig calls are
\* made while it is suspended: its tuples and its keys are those of that
\* configuration.
C16_SnapshotConsistency ==
    Resolved => Enumerated(Get(configAtCall))

\* C17 as stated: when the caller that saves the configuration, applies a
\* custom one, calls processImage and restores the saved one is the only
\* caller, the configuration after it is the one that was active before it.
C17_SaveRestoreOverride ==
    (idiom.state = "restored" /\ idiom.alone) => config = Get(idiom.before)

-----------------------------------------------------------------------------
(* ImageValidator *)

\* the part of name after its last '.', absent when name has no '.'
SuffixAfterLastDot(name) ==
    IF \A i \in 1..Len(name) : name[i] # "."
    THEN None
    ELSE LET k == CHOOSE i \in 1..Len(name) :
                      name[i] = "." /\ \A j \in (i + 1)..Len(name) : name[j] # "."
         IN  Some([i \in 1..(Len(name) - k) |-> name[k + i]])

AllowedSuffixes ==
    { <<"j", "p", "g">>, <<"j", "p", "e", "g">>, <<"p", "n", "g">>,
      <<"w", "e", "b", "p">>, <<"a", "v", "i", "f">>, <<"g", "i", "f">>,
      <<"b", "m", "p">>, <<"t", "i", "f", "f">>, <<"s", "v", "g">> }

SameIgnoringCase(a, b) ==
    /\ Len(a) = Len(b)
    /\ \A i \in 1..Len(a) : ToLowerChar(a[i]) = ToLowerChar(b[i])

HasAllowedSuffix(name) ==
    /\ IsSome(SuffixAfterLastDot(name))
    /\ \E suffix \in AllowedSuffixes :
          SameIgnoringCase(Get(SuffixAfterLastDot(name)), suffix)

Threw(kind) == IsSome(validation.thrown) /\ Get(validation.thrown).kind = kind

Names(text) ==
    /\ Threw("UnsupportedImageFormatError")
    /\ Tail(Get(validation.thrown).message) = text

\* the extension of name as validateExtension reports it: the last '.' and
\* what follows it, nothing for a name without '.'
ExtensionText(name) ==
    IF IsSome(SuffixAfterLastDot(name))
    THEN <<".">> \o Get(SuffixAfterLastDot(name))
    ELSE <<>>

EmptyBufferMessage == <<"File buffer is empty">>

\* C19: validateFile checks, in this order, that the bytes are not empty,
\* the extension, the MIME type (only if one is supplied) and the size (only
\* if a maximum is supplied), and throws the error of the first check that
\* fails and of no other.  For an argument that is given but falsy ('' or 0)
\* only the "only if" is stated: the check it belongs to may or may not run.
C19_FirstFailingCheck ==
    (validation.op = "validateFile" /\ validation.returned) =>
        LET v == validation
            bytesFail == ~IsSome(v.buffer) \/ Get(v.buffer) = <<>>
            extensionFails == ~HasAllowedSuffix(v.filename)
            mimeBad == /\ IsSome(v.mimeType)
                       /\ \A t \in SUPPORTED_MIME_TYPES :
                             ~SameIgnoringCase(Get(v.mimeType), t)
            mimeFails == mimeBad /\ Get(v.mimeType) # <<>>
            tooLarge == /\ IsSome(v.maxSizeInBytes)
                        /\ Len(Get(v.buffer)) > Get(v.maxSizeInBytes)
            sizeFails == tooLarge /\ Get(v.maxSizeInBytes) # 0
            emptyError == /\ Threw("ImageValidationError")
                          /\ Get(v.thrown).message = EmptyBufferMessage
            sizeError == /\ Threw("ImageValidationError")
                         /\ Get(v.thrown).message # EmptyBufferMessage
        IN  IF bytesFail THEN emptyError
            ELSE IF extensionFails THEN Names(ExtensionText(v.filename))
            ELSE /\ mimeFails => Names(Get(v.mimeType))
                 /\ (sizeFails /\ ~mimeBad) => sizeError
                 /\ sizeFails => IsSome(v.thrown)
                 /\ Threw("UnsupportedImageFormatError") =>
                        mimeBad /\ Names(Get(v.mimeType))
                 /\ Threw("ImageValidationError") =>
                        sizeError /\ tooLarge /\ ~mimeFails

\* validateFile has thrown the error of the extension check for bytes that
\* are not empty, a name with an unsupported extension, an unsupported MIME
\* type and a size above the maximum
C19_Witness ==
    /\ validation.op = "validateFile"
    /\ validation.returned
    /\ validation.buffer = Some(<<7, 8>>)
    /\ validation.filename = <<"x", ".", "p", "d", "f">>
    /\ validation.mimeType = Some(<<"t", "e", "x", "t", "/", "p", "l", "a", "i", "n">>)
    /\ validation.maxSizeInBytes = Some(1)
    /\ Names(<<".", "p", "d", "f">>)

-----------------------------------------------------------------------------
(* Ordering of the original upload and the derived-variant work *)

\* C20: in every execution of processImage the upload of the original has
\* settled with success before the first Transform call is made and before
\* the first upload of a derived variant is made: while the upload of the
\* original is pending, and after it has failed, no Transform call and no
\* other upload has been made.  The first upload is that of the original,
\* and the original is in Storage from then on.
C20_OriginalUploadFirst ==
    /\ (transformLog # <<>> \/ Len(uploadLog) >= 2) =>
          /\ OriginalUploaded
          /\ IsSome(originalPath)
          /\ uploadLog[1] = [path |-> Get(originalPath), data |-> Raw(Get(args.buffer))]
          /\ Has(storage, Get(originalPath))
    /\ (pc = "uploadOriginal" \/ (Len(uploadLog) >= 1 /\ 1 \in faults.upload)) =>
          /\ transformLog = <<>>
          /\ Len(uploadLog) = 1

\* the first Transform call is in flight: the original has been stored, no
\* variant has been uploaded yet
C20_Witness ==
    /\ pc = "transform"
    /\ Len(transformLog) = 1
    /\ Len(uploadLog) = 1
    /\ OriginalUploaded
    /\ Has(storage, Get(originalPath))

-----------------------------------------------------------------------------
(* The barrier over the combination space *)

\* the k-th Transform call is the attempt of the k-th tuple of cfg0
AttemptOf(cfg0, k) ==
    /\ k <= NumTuples(cfg0)
    /\ transformLog[k].buffer = Get(args.buffer)
    /\ transformLog[k].format = TupleAt(cfg0, k).format
    /\ transformLog[k].size.width = TupleAt(cfg0, k).size.width * TupleAt(cfg0, k).dpr

\* the k-th attempt has settled: its Transform call failed, or its upload
\* has settled
AttemptSettled(k) ==
    \/ k \in faults.transform
    \/ /\ TransformSucceeded(k)
       /\ UploadOf(k) \in 1..Len(uploadLog)
       /\ ~(pc = "uploadVariant" /\ UploadOf(k) = Len(uploadLog))

\* C21: when processImage returns a result, every tuple of sizes x formats x
\* dprRatios of the configuration has been attempted exactly once (the k-th
\* Transform call is that of the k-th tuple, none skipped, none repeated) and
\* every attempt has settled; no result exists while a tuple is unattempted
\* or in flight.
C21_Barrier ==
    /\ transformLog # <<>> => AttemptOf(config, Len(transformLog))
    /\ IsSome(outcome) =>
          /\ pc \in {"resolved", "rejected"}
          /\ pending = None
    /\ Resolved =>
          /\ Result.tag = "result"
          /\ Len(transformLog) = NumTuples(config)
          /\ \A k \in 1..Len(transformLog) :
                AttemptOf(config, k) /\ AttemptSettled(k)
    /\ (pc \in {"transform", "uploadVariant"}) =>
          /\ outcome = None
          /\ ~AttemptSettled(Len(transformLog))

\* twelve tuples were attempted, the Transform call of the third failed, and
\* the result was returned
C21_Witness ==
    /\ Resolved
    /\ NumTuples(config) = 12
    /\ Len(transformLog) = 12
    /\ faults = [transform |-> {3}, upload |-> {}]
    /\ \A k \in 1..12 : AttemptSettled(k)

-----------------------------------------------------------------------------
(* What a tuple contributes to the result *)

\* C22: a tuple contributes an entry to generated[format.type] if and only
\* if both its Transform call and its upload succeeded, and the entry is the
\* path the upload returned; no upload is made for a tuple whose Transform
\* call failed; a failed upload of a variant is absorbed: the tuple is left
\* out, the later tuples are attempted and the call does not reject.
C22_EntryIffTransformedAndStored ==
    /\ OriginalUploaded =>
          /\ ~Rejected
          /\ \A t \in DOMAIN generatedFiles :
                generatedFiles[t] = StoredOfType(t, Len(transformLog))
          /\ Len(uploadLog) - 1 =
                Cardinality({k \in 1..Len(transformLog) : TransformSucceeded(k)})
          /\ \A k \in 1..Len(transformLog) :
                TransformSucceeded(k) =>
                    Location(env.driver, uploadLog[UploadOf(k)].path) =
                        ReturnedPath(TupleAt(config, k))
    /\ Resolved =>
          /\ Len(transformLog) = NumTuples(config)
          /\ DOMAIN Result.generated = ConfiguredTypes
          /\ \A t \in ConfiguredTypes :
                Result.generated[t] = StoredOfType(t, NumTuples(config))

\* of twelve tuples the upload of the fourth, (320, avif, 1), failed on a
\* driver that returns locations: the result lists six webp and five avif
\* variants
C22_Witness ==
    /\ Resolved
    /\ env.driver = "remote"
    /\ NumTuples(config) = 12
    /\ faults = [transform |-> {}, upload |-> {5}]
    /\ Len(Result.generated[Webp]) = 6
    /\ Len(Result.generated[Avif]) = 5
    /\ ReturnedPath(TupleAt(config, 4)) \notin
          {Result.generated[Avif][i] : i \in 1..5}

-----------------------------------------------------------------------------
(* The size ceiling *)

\* C23 as stated: for bytes that are not empty and a name with a supported
\* extension (and a MIME type that is absent or supported), validateFile
\* called with a maximum maxBytes >= 0 throws ImageValidationError exactly
\* when the number of bytes is above maxBytes, the maximum 0 included; a
\* buffer of exactly maxBytes bytes is accepted.
C23_SizeCeiling ==
    LET v == validation
    IN  ( /\ v.op = "validateFile"
          /\ v.returned
          /\ IsSome(v.buffer)
          /\ Get(v.buffer) # <<>>
          /\ HasAllowedSuffix(v.filename)
          /\ IsSome(v.mimeType) =>
                \E t \in SUPPORTED_MIME_TYPES : SameIgnoringCase(Get(v.mimeType), t)
          /\ IsSome(v.maxSizeInBytes) ) =>
            /\ Len(Get(v.buffer)) > Get(v.maxSizeInBytes)
                  => Threw("ImageValidationError")
            /\ Len(Get(v.buffer)) <= Get(v.maxSizeInBytes)
                  => v.thrown = None

-----------------------------------------------------------------------------
(* Encapsulation of ImageProcessingConfig *)

\* C24 as stated: what the getters of a configuration return changes only
\* when one of its own methods is called: a step in which the caller changes
\* an array it holds (one it passed to the constructor or to a setter, or
\* one a getter returned) and calls no method leaves the value of every axis
\* as it was.
C24_Encapsulation ==
    [][ lastCfgOp' = lastCfgOp =>
            \A axis \in Axes :
                View(heap', cfgRefs', axis) = View(heap, cfgRefs, axis) ]_vars

-----------------------------------------------------------------------------
(* The DPR set *)

NoDuplicates(items) ==
    \A i, j \in 1..Len(items) : items[i] = items[j] => i = j

\* C25 as stated: after any sequence of constructor with a dpr argument,
\* setDPR, addDPRRatio and removeDPRRatio the ratio list holds no value
\* twice, and a ratio that is added goes to the end of the list.
C25_DprSetInvariant ==
    /\ cfgRefs # NoRefs => NoDuplicates(View(heap, cfgRefs, "ratios"))
    /\ (lastCfgOp.op = "add" /\ lastCfgOp.axis = "ratios"
          /\ lastCfgOp.after # lastCfgOp.before) =>
            lastCfgOp.after = Append(lastCfgOp.before, Get(lastCfgOp.arg))

-----------------------------------------------------------------------------
(* Cancellation.  processImage has no cancellation primitive: a Transform or *)
(* Storage call that is cancelled reaches it as the rejection of the awaited *)
(* promise, which is what a fault of the capability is.                      *)

\* C26 as stated: when a Transform or Storage call is cancelled after the
\* original has been stored, no further tuple is scheduled (the cancelled
\* call is the last Transform call, or the upload of the last tuple
\* transformed) and the call returns the mapping settled so far; when the
\* upload of the original is cancelled the call rejects with
\* ImageProcessingFailedError "cancelled".
C26_Cancellation ==
    /\ \A k \in faults.transform : Len(transformLog) = k
    /\ \A j \in faults.upload \ {1} :
          \A k \in 1..Len(transformLog) :
              (TransformSucceeded(k) /\ UploadOf(k) = j) => Len(transformLog) = k
    /\ (faults # NoFaults /\ 1 \notin faults.upload) => pc # "rejected"
    /\ (Len(uploadLog) >= 1 /\ 1 \in faults.upload) =>
          /\ Rejected
          /\ Thrown.kind = "ImageProcessingFailedError"
          /\ Thrown.message = <<"cancelled">>

-----------------------------------------------------------------------------
(* What the paths of a result identify *)

\* C27 as stated: when processImage returns, the path listed for a tuple
\* identifies a stored object whose bytes are the Transform output of that
\* tuple, for every configuration, two sizes of one width and two formats of
\* one type included.
C27_VariantPathsNotClobbered ==
    Resolved =>
        \A k \in 1..Len(transformLog) :
            TupleStored(k) =>
                LET tp == TupleAt(config, k)
                    upload == uploadLog[UploadOf(k)]
                IN  /\ Has(storage, upload.path)
                    /\ Lookup(storage, upload.path) =
                          processedImage(Get(args.buffer),
                                         actualSize(tp.size, tp.dpr), tp.format)

-----------------------------------------------------------------------------
(* Variants stored and variants listed *)

\* the paths a result lists
ListedPaths ==
    UNION { {Result.generated[t][i] : i \in 1..Len(Result.generated[t])} :
            t \in DOMAIN Result.generated }

\* C28 as stated: whatever updateConfig calls are made while processImage is
\* in flight, every variant the call has uploaded with success is listed in
\* the mapping it returns.
C28_NoOrphanedVariants ==
    Resolved =>
        \A j \in 2..Len(uploadLog) :
            j \notin faults.upload =>
                Location(env.driver, uploadLog[j].path) \in ListedPaths

-----------------------------------------------------------------------------
(* Termination *)

\* C29: provided every Transform and Storage call settles, a processImage
\* call that has been made settles with a result or an error, also when
\* updateConfig is called while it is in flight; once the original is
\* stored the call settles with a result and never with an error.
C29_Termination ==
    /\ InFlight ~> (Resolved \/ Rejected)
    /\ OriginalUploaded ~> Resolved
    /\ [](OriginalUploaded => ~Rejected)

\* a call during which updateConfig was called twice, once while a Transform
\* call and once while an upload was awaited, has returned its result
C29_Witness ==
    /\ Resolved
    /\ lastUpdate.n = 2
    /\ lastUpdate.at \in {"transform", "uploadVariant"}
    /\ Len(transformLog) >= 2
    /\ faults # NoFaults

-----------------------------------------------------------------------------
(* Independence after updateConfig *)

\* C30 as stated: after engine.updateConfig(c) the two configurations share
\* nothing: addSize, addFormat, addDPRRatio or removeDPRRatio called on c
\* leaves the value of every axis of the engine's configuration as it was,
\* and add* or remove* called on the engine's configuration leaves what the
\* getters of c return as it was.
C30_Independence ==
    [][ engine.updated =>
          /\ (\/ lastCfgOp'.op = "add"
              \/ lastCfgOp'.op = "remove" /\ lastCfgOp'.axis = "ratios")
                => \A axis \in Axes :
                      EngineView(heap', engine', axis) = EngineView(heap, engine, axis)
          /\ lastCfgOp'.op \in {"engine.add", "engine.remove"}
                => \A axis \in Axes :
                      View(heap', cfgRefs', axis) = View(heap, cfgRefs, axis) ]_vars

====
